---- MODULE Spec2Model ----
(***************************************************************************)
(* Model of ste/ste-mmf-models.go: the memory-mapped Job Part Plan         *)
(* (JobPartPlanHeader, JobPartPlanBlobData, JobPartPlanTransfer) and its   *)
(* atomic status accessors, called concurrently by worker routines.        *)
(***************************************************************************)
EXTENDS Integers, Naturals, Sequences, FiniteSets, TLC

(* ------------------------------ bounds --------------------------------- *)
NumRoutines == 2        \* worker routines sharing the mapped plan
MaxTransfers == 2       \* transfer records laid out after the header
MaxCalls == 3           \* accessor calls made in a run, over all routines
MaxStatusCode == 15     \* low halves rendered from each end of a 16-bit half
MaxLen == 2             \* lengths tried from each end of a length range

(* ------------------------- program constants --------------------------- *)
dataSchemaVersion == 0

JobInProgress == 0
JobPaused == 1
JobCancelled == 2
JobCompleted == 3

HighJobPriority == 0
MediumJobPriority == 1
LowJobPriority == 2
\* the default taken to be the lowest priority
DefaultJobPriorityLow == LowJobPriority

DefaultJobPriority == HighJobPriority

MAX_SIZE_CONTENT_TYPE == 256
MAX_SIZE_CONTENT_ENCODING == 256
MAX_SIZE_META_DATA == 1000

\* common.TransferStatus values (package common)
TransferInProgress == 0
TransferCompleted == 1
TransferFailed == 2

Half == 2^16            \* a uint32 is written as <<high, low>> 16-bit halves

JobStatusCodes == {JobInProgress, JobPaused, JobCancelled, JobCompleted}
TransferStatuses == {TransferInProgress, TransferCompleted, TransferFailed}
TerminalTransfer == {TransferCompleted, TransferFailed}
TerminalJob == {JobCancelled, JobCompleted}

Routines == 1..NumRoutines
TransferIndex == 0..(MaxTransfers - 1)

NoStore == 0 - 1          \* history marker: no store has been made yet
NoIndex == 0 - 1          \* call record: the call is on the header
NoValue == 0 - 1          \* call record: no argument / no return value

(* ------------------------------ state ---------------------------------- *)
VARIABLES
    plan,        \* the mapped region: [header, transfers]
    calls,       \* accessor calls completed so far
    lastCall,    \* the most recent accessor call and its result
    jobWritten,  \* history: values passed to setJobStatus so far
    jobLast,     \* history: value passed to the latest setJobStatus
    wrote,       \* history: wrote[r][i], last value r passed for record i
    xferLast,    \* history: xferLast[i], value of the latest store on i
    status,      \* JobStatusCode being rendered
    statusString, \* result of status.String()
    usedLen,     \* bytes in use in each BlobData buffer, as last stored
    queue        \* scheduling queue chosen for header.Priority

vars == <<plan, calls, lastCall, jobWritten, jobLast, wrote, xferLast,
          status, statusString, usedLen, queue>>

(* --------------------------- pure functions ---------------------------- *)
\* uint32(n) for a small literal n, as <<high, low>> 16-bit halves
Word(n) == <<n \div Half, n % Half>>

\* uint8(n) and uint16(n): n kept modulo the width of the field
Uint8(n) == n % 2^8

Uint16(n) == n % 2^16

\* the scheduling queue of a stored Priority; any other value is a corrupt plan
PriorityQueue(prio) ==
    CASE prio = HighJobPriority -> "HighQueue"
      [] prio = MediumJobPriority -> "MediumQueue"
      [] prio = LowJobPriority -> "LowQueue"
      [] OTHER -> "CorruptPlan"

\* String() switching on the low 16 bits only
StringLow16(code) ==
    CASE code[2] = 0 -> "JobInProgress"
      [] code[2] = 1 -> "JobPaused"
      [] code[2] = 2 -> "JobCancelled"
      [] code[2] = 3 -> "JobCompleted"
      [] OTHER -> "InvalidStatusCode"

\* String() with the names of codes 2 and 3 exchanged
StringSwapped(code) ==
    CASE code = Word(0) -> "JobInProgress"
      [] code = Word(1) -> "JobPaused"
      [] code = Word(2) -> "JobCompleted"
      [] code = Word(3) -> "JobCancelled"
      [] OTHER -> "InvalidStatusCode"

\* JobStatusCode.String(), code a uint32 given as <<high, low>>
String(code) ==
    CASE code = Word(0) -> "JobInProgress"
      [] code = Word(1) -> "JobPaused"
      [] code = Word(2) -> "JobCancelled"
      [] code = Word(3) -> "JobCompleted"
      [] OTHER -> "InvalidStatusCode"

\* a load of the low bit of the word only
LoadUint32Narrow(word) == word % 2

\* atomic.LoadUint32(addr): the whole word as last stored
LoadUint32(word) == word

\* a store in two pieces, observed with only the high piece written
StoreUint32Torn(word, val) == (val \div 2) * 2 + (word % 2)

\* a store that never lowers the word
StoreUint32Max(word, val) == IF val > word THEN val ELSE word

\* atomic.StoreUint32(addr, val): replaces the whole word at addr
StoreUint32(word, val) == val

\* getJobStatus answering from the status the header was constructed with
getJobStatusStale(p) == JobInProgress

getJobStatus(p) == LoadUint32(p.header.jobStatus)

\* setJobStatus refusing to leave a terminal job status
setJobStatusGuarded(p, code) ==
    IF p.header.jobStatus \in TerminalJob
    THEN p
    ELSE [p EXCEPT !.header.jobStatus = code]

\* setJobStatus that fails every unfinished transfer on cancellation
setJobStatusCascade(p, code) ==
    [p EXCEPT !.header.jobStatus = code,
              !.transfers = [i \in DOMAIN @ |->
                  IF code = JobCancelled /\ @[i].transferStatus = TransferInProgress
                  THEN [@[i] EXCEPT !.transferStatus = TransferFailed]
                  ELSE @[i]]]

setJobStatus(p, code) ==
    [p EXCEPT !.header.jobStatus = StoreUint32(@, code)]

getTransferStatus(p, i) == LoadUint32(p.transfers[i].transferStatus)

\* setTransferStatus copying the status into every record
setTransferStatusAll(p, i, code) ==
    [p EXCEPT !.transfers = [j \in DOMAIN @ |->
                                [@[j] EXCEPT !.transferStatus = code]]]

\* setTransferStatus refusing to leave a terminal transfer status
setTransferStatusGuarded(p, i, code) ==
    IF p.transfers[i].transferStatus \in TerminalTransfer
    THEN p
    ELSE [p EXCEPT !.transfers[i].transferStatus = code]

\* setTransferStatus that also stamps CompletionTime on a terminal status
setTransferStatusStamp(p, i, code) ==
    [p EXCEPT !.transfers[i].transferStatus = code,
              !.transfers[i].CompletionTime =
                  IF code \in TerminalTransfer THEN 1 ELSE @]

\* setTransferStatus storing a whole record copied from the first record
setTransferStatusWide(p, i, code) ==
    [p EXCEPT !.transfers[i] = [p.transfers[0] EXCEPT !.transferStatus = code]]

\* setTransferStatus that marks the job completed with a terminal transfer
setTransferStatusEndsJob(p, i, code) ==
    [p EXCEPT !.transfers[i].transferStatus = code,
              !.header.jobStatus =
                  IF code \in TerminalTransfer THEN JobCompleted ELSE @]

setTransferStatus(p, i, code) ==
    [p EXCEPT !.transfers[i].transferStatus = StoreUint32(@, code)]

(* ------------------------- the constructed plan ------------------------ *)
\* each byte buffer is held as its used prefix; the bytes past the used
\* length are never read
JobPartPlanBlobData ==
    [ContentTypeLength     |-> 4,
     ContentType           |-> <<116, 101, 120, 116>>,
     ContentEncodingLength |-> 2,
     ContentEncoding       |-> <<98, 114>>,
     MetaDataLength        |-> 3,
     MetaData              |-> <<107, 61, 118>>,
     BlockSize             |-> 8]

JobPartPlanHeader(final, prio) ==
    [Version            |-> dataSchemaVersion,
     Id                 |-> 7,
     PartNum            |-> 1,
     IsFinalPart        |-> final,
     Priority           |-> prio,
     TTLAfterCompletion |-> 5,
     SrcLocationType    |-> 1,
     DstLocationType    |-> 2,
     NumTransfers       |-> MaxTransfers,
     LogSeverity        |-> 3,
     BlobData           |-> JobPartPlanBlobData,
     jobStatus          |-> JobInProgress]

JobPartPlanTransfer(i) ==
    [Offset         |-> 100 + 10 * i,
     SrcLength      |-> 5,
     DstLength      |-> 5,
     ChunkNum       |-> 1 + i,
     ModifiedTime   |-> 11 + i,
     SourceSize     |-> 8 * (1 + i),
     CompletionTime |-> 0,
     transferStatus |-> TransferInProgress]

(* ------------------------------ Init ----------------------------------- *)
NoCall == [op |-> "none", idx |-> NoIndex, arg |-> NoValue, ret |-> NoValue]

Init ==
    /\ plan = [header    |-> JobPartPlanHeader(TRUE, DefaultJobPriority),
               transfers |-> [i \in TransferIndex |-> JobPartPlanTransfer(i)]]
    /\ calls = 0
    /\ lastCall = NoCall
    /\ jobWritten = {}
    /\ jobLast = NoStore
    /\ wrote = [r \in Routines |-> [i \in TransferIndex |-> NoStore]]
    /\ xferLast = [i \in TransferIndex |-> NoStore]
    /\ status = Word(JobInProgress)
    /\ statusString = String(Word(JobInProgress))
    /\ usedLen = [ContentType     |-> Len(JobPartPlanBlobData.ContentType),
                  ContentEncoding |-> Len(JobPartPlanBlobData.ContentEncoding),
                  MetaData        |-> Len(JobPartPlanBlobData.MetaData)]
    /\ queue = PriorityQueue(DefaultJobPriority)

(* ----------------------------- actions --------------------------------- *)
\* routine r calls jPartPlanHeader.getJobStatus()
GetJobStatus(r) ==
    /\ calls < MaxCalls
    /\ calls' = calls + 1
    /\ lastCall' = [op |-> "getJobStatus", idx |-> NoIndex,
                    arg |-> NoValue, ret |-> getJobStatus(plan)]
    /\ UNCHANGED <<plan, jobWritten, jobLast, wrote, xferLast,
                   status, statusString, usedLen, queue>>

\* setJobStatus waiting, while the job is paused, for the job to be resumed
SetJobStatusWaiting(r, code) ==
    /\ calls < MaxCalls
    /\ plan.header.jobStatus # JobPaused
    /\ plan' = setJobStatus(plan, code)
    /\ calls' = calls + 1
    /\ lastCall' = [op |-> "setJobStatus", idx |-> NoIndex,
                    arg |-> code, ret |-> NoValue]
    /\ jobWritten' = jobWritten \cup {code}
    /\ jobLast' = code
    /\ UNCHANGED <<wrote, xferLast, status, statusString, usedLen, queue>>

\* routine r calls jPartPlanHeader.setJobStatus(code)
SetJobStatus(r, code) ==
    /\ calls < MaxCalls
    /\ plan' = setJobStatus(plan, code)
    /\ calls' = calls + 1
    /\ lastCall' = [op |-> "setJobStatus", idx |-> NoIndex,
                    arg |-> code, ret |-> NoValue]
    /\ jobWritten' = jobWritten \cup {code}
    /\ jobLast' = code
    /\ UNCHANGED <<wrote, xferLast, status, statusString, usedLen, queue>>

\* routine r calls getTransferStatus() on transfer record i
GetTransferStatus(r, i) ==
    /\ calls < MaxCalls
    /\ calls' = calls + 1
    /\ lastCall' = [op |-> "getTransferStatus", idx |-> i,
                    arg |-> NoValue, ret |-> getTransferStatus(plan, i)]
    /\ UNCHANGED <<plan, jobWritten, jobLast, wrote, xferLast,
                   status, statusString, usedLen, queue>>

\* routine r calls setTransferStatus(code) on transfer record i
SetTransferStatus(r, i, code) ==
    /\ calls < MaxCalls
    /\ plan' = setTransferStatus(plan, i, code)
    /\ calls' = calls + 1
    /\ lastCall' = [op |-> "setTransferStatus", idx |-> i,
                    arg |-> code, ret |-> NoValue]
    /\ wrote' = [wrote EXCEPT ![r][i] = code]
    /\ xferLast' = [xferLast EXCEPT ![i] = code]
    /\ UNCHANGED <<jobWritten, jobLast, status, statusString, usedLen, queue>>

Next ==
    \/ \E r \in Routines : GetJobStatus(r)
    \/ \E r \in Routines, code \in JobStatusCodes : SetJobStatus(r, code)
    \/ \E r \in Routines, i \in TransferIndex : GetTransferStatus(r, i)
    \/ \E r \in Routines, i \in TransferIndex, code \in TransferStatuses :
          SetTransferStatus(r, i, code)

Spec == Init /\ [][Next]_vars

\* the routines are scheduled fairly: a call that can be made is made
SpecFair == Init /\ [][Next]_vars /\ WF_vars(Next)

(* ------------------- rendering of stored status codes ------------------ *)
\* uint32 values rendered: both ends of the low half, under several high halves
StatusInputs ==
    {<<h, l>> : h \in {0, 1, Half \div 2, Half - 1},
                l \in (0..MaxStatusCode) \cup ((Half - 1 - MaxStatusCode)..(Half - 1))}

\* an inspection of a stored code: code.String()
RenderStatus(code) ==
    /\ status' = code
    /\ statusString' = String(code)
    /\ UNCHANGED <<plan, calls, lastCall, jobWritten, jobLast, wrote, xferLast,
                   usedLen, queue>>

NextString == \E code \in StatusInputs : RenderStatus(code)

SpecString == Init /\ [][NextString]_vars

(* --------------------- BlobData length fields -------------------------- *)
\* used lengths tried for a buffer of capacity cap: both ends of 0..cap
LengthInputs(cap) == (0..MaxLen) \cup ((cap - MaxLen)..cap)

\* values tried for a length field of the given width: both ends of its range
FieldValues(width) == (0..MaxLen) \cup ((2^width - 1 - MaxLen)..(2^width - 1))

\* BlobData.ContentTypeLength = uint8(n), for a content type of n bytes
StoreContentTypeLength(n) ==
    /\ plan' = [plan EXCEPT !.header.BlobData.ContentTypeLength = Uint8(n)]
    /\ usedLen' = [usedLen EXCEPT !.ContentType = n]
    /\ UNCHANGED <<calls, lastCall, jobWritten, jobLast, wrote, xferLast,
                   status, statusString, queue>>

\* BlobData.ContentEncodingLength = uint8(n), for a content encoding of n bytes
StoreContentEncodingLength(n) ==
    /\ plan' = [plan EXCEPT !.header.BlobData.ContentEncodingLength = Uint8(n)]
    /\ usedLen' = [usedLen EXCEPT !.ContentEncoding = n]
    /\ UNCHANGED <<calls, lastCall, jobWritten, jobLast, wrote, xferLast,
                   status, statusString, queue>>

\* BlobData.MetaDataLength = uint16(n), for metadata of n bytes
StoreMetaDataLength(n) ==
    /\ plan' = [plan EXCEPT !.header.BlobData.MetaDataLength = Uint16(n)]
    /\ usedLen' = [usedLen EXCEPT !.MetaData = n]
    /\ UNCHANGED <<calls, lastCall, jobWritten, jobLast, wrote, xferLast,
                   status, statusString, queue>>

\* a BlobData found in a mapped file: each length field holds any value of
\* its type, and what was stored into it is not known
MapBlobData(ct, ce, md) ==
    /\ plan' = [plan EXCEPT !.header.BlobData.ContentTypeLength = ct,
                            !.header.BlobData.ContentEncodingLength = ce,
                            !.header.BlobData.MetaDataLength = md]
    /\ usedLen' = [ContentType |-> NoStore, ContentEncoding |-> NoStore,
                   MetaData |-> NoStore]
    /\ UNCHANGED <<calls, lastCall, jobWritten, jobLast, wrote, xferLast,
                   status, statusString, queue>>

NextBlob ==
    \/ \E n \in LengthInputs(MAX_SIZE_CONTENT_TYPE) : StoreContentTypeLength(n)
    \/ \E n \in LengthInputs(MAX_SIZE_CONTENT_ENCODING) : StoreContentEncodingLength(n)
    \/ \E n \in LengthInputs(MAX_SIZE_META_DATA) : StoreMetaDataLength(n)
    \/ \E ct \in FieldValues(8), ce \in FieldValues(8), md \in FieldValues(16) :
          MapBlobData(ct, ce, md)

SpecBlob == Init /\ [][NextBlob]_vars

(* ---------------------- priority of a job part ------------------------- *)
\* a part whose header carries the stored Priority prio is dispatched
DispatchPriority(prio) ==
    /\ plan' = [plan EXCEPT !.header.Priority = prio]
    /\ queue' = PriorityQueue(prio)
    /\ UNCHANGED <<calls, lastCall, jobWritten, jobLast, wrote, xferLast,
                   status, statusString, usedLen>>

NextPriority == \E prio \in 0..(2^8 - 1) : DispatchPriority(prio)

SpecPriority == Init /\ [][NextPriority]_vars

(* --------------------------- type invariant ---------------------------- *)
TypeOK ==
    /\ plan.header.jobStatus \in JobStatusCodes
    /\ \A i \in TransferIndex :
          plan.transfers[i].transferStatus \in TransferStatuses
    /\ calls \in 0..MaxCalls

(* --------------------------- derived notions --------------------------- *)
\* the routines that have stored a status into record i
Writers(i) == {r \in Routines : wrote[r][i] # NoStore}

\* the step just taken was an accessor call (lastCall' describes it)
Called == calls' = calls + 1

TransferStatusOf(i) == plan.transfers[i].transferStatus

(* ------------------------------- C1 ------------------------------------ *)
\* C1: job status integrity.  Every value returned by getJobStatus, and the
\* job status itself, is the initial JobInProgress or a value that was passed
\* to some setJobStatus call, never a mix of two values; once any routine
\* has stored, the job status is one of the values actually stored.
C1_JobStatusIntegrity ==
    /\ plan.header.jobStatus \in {JobInProgress} \cup jobWritten
    /\ jobWritten # {} => plan.header.jobStatus \in jobWritten
    /\ lastCall.op = "getJobStatus" =>
          lastCall.ret \in {JobInProgress} \cup jobWritten

\* reached: after two different values were stored, a get returned JobCancelled
C1_Witness ==
    /\ lastCall.op = "getJobStatus"
    /\ lastCall.ret = JobCancelled
    /\ Cardinality(jobWritten) >= 2

(* ------------------------------- C2 ------------------------------------ *)
\* C2: per-record independence.  A record that only routine r has stored to
\* holds the last value r passed for it, one of the defined transfer
\* statuses, whatever other routines stored into other records; a record no
\* routine has stored to still holds its initial TransferInProgress.
C2_PerRecordIndependence ==
    \A i \in TransferIndex :
        /\ Writers(i) = {} => TransferStatusOf(i) = TransferInProgress
        /\ \A r \in Routines :
              Writers(i) = {r} =>
                  /\ TransferStatusOf(i) = wrote[r][i]
                  /\ TransferStatusOf(i) \in TransferStatuses

\* reached: two routines, each the only writer of its own record, have left
\* different final statuses in them
C2_Witness ==
    /\ Writers(0) = {1}
    /\ Writers(1) = {2}
    /\ TransferStatusOf(0) = TransferCompleted
    /\ TransferStatusOf(1) = TransferFailed
    /\ calls = MaxCalls

(* ------------------------------- C3 ------------------------------------ *)
\* C3 as stated: once a record's status is Completed or Failed it never
\* changes again.
C3_TerminalNeverChanges ==
    [][\A i \in TransferIndex :
          TransferStatusOf(i) \in TerminalTransfer =>
              plan'.transfers[i].transferStatus = TransferStatusOf(i)]_vars

\* C3 amended: the setter does not protect a terminal status.  A record whose
\* status is Completed or Failed keeps it through every call except a
\* setTransferStatus on that same record, and a setTransferStatus(s) on it
\* replaces the status by s, whichever of the three values s is.
C3_TerminalOverwrittenOnlyBySet ==
    [][\A i \in TransferIndex :
          TransferStatusOf(i) \in TerminalTransfer =>
              /\ plan'.transfers[i].transferStatus # TransferStatusOf(i) =>
                    /\ Called
                    /\ lastCall'.op = "setTransferStatus"
                    /\ lastCall'.idx = i
              /\ (Called /\ lastCall'.op = "setTransferStatus" /\ lastCall'.idx = i) =>
                    plan'.transfers[i].transferStatus = lastCall'.arg]_vars

\* reached: a record stored as terminal by one routine was then set back to
\* TransferInProgress by another
C3_Witness ==
    \E i \in TransferIndex, r \in Routines :
        /\ calls = 2
        /\ wrote[r][i] \in TerminalTransfer
        /\ lastCall.op = "setTransferStatus"
        /\ lastCall.idx = i
        /\ lastCall.arg = TransferInProgress
        /\ TransferStatusOf(i) = TransferInProgress

(* ------------------------------- C4 ------------------------------------ *)
JobTransitions ==
    {<<JobInProgress, JobPaused>>, <<JobPaused, JobInProgress>>,
     <<JobInProgress, JobCancelled>>, <<JobInProgress, JobCompleted>>}

\* C4 as stated: the job status changes only along InProgress->Paused,
\* Paused->InProgress, InProgress->Cancelled and InProgress->Completed, so a
\* Cancelled or Completed job status never changes again.
C4_JobStateMachine ==
    [][plan'.header.jobStatus # plan.header.jobStatus =>
          <<plan.header.jobStatus, plan'.header.jobStatus>> \in JobTransitions]_vars

\* C4 amended: setJobStatus enforces no state machine.  The job status
\* changes only in a setJobStatus call, and every setJobStatus(s) call leaves
\* the job status equal to s from any status, the terminal ones included.
C4_JobStatusFollowsSet ==
    [][/\ plan'.header.jobStatus # plan.header.jobStatus =>
             (Called /\ lastCall'.op = "setJobStatus")
       /\ (Called /\ lastCall'.op = "setJobStatus") =>
             plan'.header.jobStatus = lastCall'.arg]_vars

\* reached: InProgress -> Completed -> InProgress, ending JobInProgress
C4_Witness ==
    /\ calls = 2
    /\ jobWritten = {JobCompleted, JobInProgress}
    /\ lastCall.op = "setJobStatus"
    /\ lastCall.arg = JobInProgress
    /\ plan.header.jobStatus = JobInProgress

(* ------------------------------- C5 ------------------------------------ *)
\* C5: the setters validate nothing.  After setJobStatus(s) the job status is
\* s until the next setJobStatus, whatever it was before, and a getJobStatus
\* made meanwhile returns s; likewise for setTransferStatus and
\* getTransferStatus on each record.
C5_SetTakesEffect ==
    /\ jobLast # NoStore => plan.header.jobStatus = jobLast
    /\ \A i \in TransferIndex :
          xferLast[i] # NoStore => TransferStatusOf(i) = xferLast[i]
    /\ (lastCall.op = "getJobStatus" /\ jobLast # NoStore) =>
          lastCall.ret = jobLast
    /\ (lastCall.op = "getTransferStatus" /\ xferLast[lastCall.idx] # NoStore) =>
          lastCall.ret = xferLast[lastCall.idx]

\* reached: InProgress -> Paused -> InProgress, then getJobStatus returned
\* JobInProgress
C5_Witness ==
    /\ calls = 3
    /\ jobWritten = {JobPaused, JobInProgress}
    /\ jobLast = JobInProgress
    /\ lastCall.op = "getJobStatus"
    /\ lastCall.ret = JobInProgress

(* ------------------------------- C6 ------------------------------------ *)
\* C6: last store wins.  When one routine has stored Completed and another
\* Failed into the same record (and no third routine stored to it), the
\* record holds the value of the store ordered last, which is Completed or
\* Failed and no third value; and whichever of the two came first, the
\* other store can still be made and then decides the result, so both
\* outcomes occur.
C6_LastStoreWins ==
    \A i \in TransferIndex :
        /\ \A a, b \in Routines :
              (/\ a # b
               /\ Writers(i) = {a, b}
               /\ wrote[a][i] = TransferCompleted
               /\ wrote[b][i] = TransferFailed) =>
                  /\ TransferStatusOf(i) = xferLast[i]
                  /\ TransferStatusOf(i) \in {TransferCompleted, TransferFailed}
        /\ (calls < MaxCalls /\ xferLast[i] \in TerminalTransfer) =>
              \A r \in Routines, code \in TerminalTransfer :
                  ENABLED (/\ SetTransferStatus(r, i, code)
                           /\ plan'.transfers[i].transferStatus = code)

\* reached: Failed was stored first, Completed second, and the record is
\* Completed
C6_Witness ==
    \E i \in TransferIndex : \E a, b \in Routines :
        /\ a # b
        /\ calls = 2
        /\ wrote[a][i] = TransferCompleted
        /\ wrote[b][i] = TransferFailed
        /\ lastCall.op = "setTransferStatus"
        /\ lastCall.arg = TransferCompleted
        /\ TransferStatusOf(i) = TransferCompleted

(* ------------------------------- C7 ------------------------------------ *)
\* C7 as stated: in every reachable state a record's CompletionTime is set
\* exactly when its status is terminal.
C7_CompletionTimeIffTerminal ==
    \A i \in TransferIndex :
        (plan.transfers[i].CompletionTime # 0) <=>
            (TransferStatusOf(i) \in TerminalTransfer)

\* C7 amended: no accessor writes CompletionTime.  Every record's
\* CompletionTime keeps the value it was constructed with through every
\* accessor call, the transition into Completed or Failed included; writing
\* it at that transition is left to the calling worker.
C7_CompletionTimeNotWritten ==
    \A i \in TransferIndex :
        plan.transfers[i].CompletionTime = JobPartPlanTransfer(i).CompletionTime

\* reached: a record set to a terminal status whose CompletionTime is unset
C7_Witness ==
    \E i \in TransferIndex :
        /\ xferLast[i] \in TerminalTransfer
        /\ TransferStatusOf(i) \in TerminalTransfer
        /\ plan.transfers[i].CompletionTime = 0

(* ------------------------------- C8 ------------------------------------ *)
\* C8: cancellation is advisory.  setJobStatus(JobCancelled) changes the job
\* status and no transfer record; while the job status is JobCancelled every
\* record can still be read, and set to Completed or Failed, with the same
\* effect as before the cancellation.
C8_CancelAdvisory ==
    /\ [](plan.header.jobStatus = JobCancelled /\ calls < MaxCalls =>
            \A r \in Routines, i \in TransferIndex :
                /\ \A code \in TerminalTransfer :
                      ENABLED (/\ SetTransferStatus(r, i, code)
                               /\ plan'.transfers[i].transferStatus = code)
                /\ ENABLED (/\ GetTransferStatus(r, i)
                            /\ lastCall'.ret = TransferStatusOf(i)))
    /\ [][(Called /\ lastCall'.op = "setJobStatus"
                  /\ lastCall'.arg = JobCancelled) =>
              /\ plan'.transfers = plan.transfers
              /\ plan'.header.jobStatus = JobCancelled]_vars

\* reached: the job was cancelled while a record was in progress, and the
\* record was then set to Completed
C8_Witness ==
    \E i \in TransferIndex :
        /\ jobLast = JobCancelled
        /\ plan.header.jobStatus = JobCancelled
        /\ lastCall.op = "setTransferStatus"
        /\ lastCall.idx = i
        /\ lastCall.arg = TransferCompleted
        /\ TransferStatusOf(i) = TransferCompleted

(* ------------------------------- C9 ------------------------------------ *)
\* the header with its status word masked
HeaderRest(p) == [p.header EXCEPT !.jobStatus = JobInProgress]

\* record i with its status word masked
TransferRest(p, i) == [p.transfers[i] EXCEPT !.transferStatus = TransferInProgress]

\* C9: the mutable surface is one status word per record.  setJobStatus
\* changes nothing but header.jobStatus; setTransferStatus on record i
\* changes nothing but that record's transferStatus (its Offset, SrcLength,
\* DstLength, ChunkNum, ModifiedTime, SourceSize and CompletionTime, every
\* other record and the header stay as they were); the two getters change
\* nothing in the plan.
C9_OneStatusWordPerRecord ==
    [][/\ (Called /\ lastCall'.op = "setJobStatus") =>
             /\ HeaderRest(plan') = HeaderRest(plan)
             /\ plan'.transfers = plan.transfers
       /\ (Called /\ lastCall'.op = "setTransferStatus") =>
             /\ plan'.header = plan.header
             /\ TransferRest(plan', lastCall'.idx) = TransferRest(plan, lastCall'.idx)
             /\ \A j \in TransferIndex \ {lastCall'.idx} :
                   plan'.transfers[j] = plan.transfers[j]
       /\ (Called /\ lastCall'.op \in {"getJobStatus", "getTransferStatus"}) =>
             plan' = plan]_vars

\* reached: both setters have changed their status word, a getter ran last,
\* and everything but the status words is as constructed
C9_Witness ==
    /\ plan.header.jobStatus = JobPaused
    /\ TransferStatusOf(1) = TransferFailed
    /\ lastCall.op = "getTransferStatus"
    /\ HeaderRest(plan) = JobPartPlanHeader(TRUE, DefaultJobPriority)
    /\ \A i \in TransferIndex : TransferRest(plan, i) = JobPartPlanTransfer(i)

(* ------------------------------- C10 ----------------------------------- *)
DefinedWords == {Word(c) : c \in JobStatusCodes}

\* C10: String() is total.  A code outside {0,1,2,3} renders as the one
\* sentinel "InvalidStatusCode", which none of the four defined codes
\* renders as, and the four defined codes render as pairwise distinct
\* strings.
C10_StringTotal ==
    /\ status \notin DefinedWords =>
          /\ statusString = "InvalidStatusCode"
          /\ \A w \in DefinedWords : String(w) # statusString
    /\ status \in DefinedWords =>
          /\ statusString # "InvalidStatusCode"
          /\ \A w \in DefinedWords \ {status} : String(w) # statusString

\* reached: the largest uint32 was rendered as the sentinel
C10_Witness ==
    /\ status = <<Half - 1, Half - 1>>
    /\ statusString = "InvalidStatusCode"

(* ------------------------------- C11 ----------------------------------- *)
\* C11 as stated: code 0 renders as "InProgress", 1 as "Paused", 2 as
\* "Cancelled" and 3 as "Completed", and the constants JobInProgress,
\* JobPaused, JobCancelled, JobCompleted are 0, 1, 2, 3.
C11_NamesAsListed ==
    /\ status = Word(0) => statusString = "InProgress"
    /\ status = Word(1) => statusString = "Paused"
    /\ status = Word(2) => statusString = "Cancelled"
    /\ status = Word(3) => statusString = "Completed"
    /\ <<JobInProgress, JobPaused, JobCancelled, JobCompleted>> = <<0, 1, 2, 3>>

\* C11 amended: the rendered names carry the prefix "Job", as the constants
\* do.  Code 0 renders as "JobInProgress", 1 as "JobPaused", 2 as
\* "JobCancelled" and 3 as "JobCompleted", and the constants JobInProgress,
\* JobPaused, JobCancelled, JobCompleted are 0, 1, 2, 3.
C11_NamesAsInCode ==
    /\ status = Word(0) => statusString = "JobInProgress"
    /\ status = Word(1) => statusString = "JobPaused"
    /\ status = Word(2) => statusString = "JobCancelled"
    /\ status = Word(3) => statusString = "JobCompleted"
    /\ <<JobInProgress, JobPaused, JobCancelled, JobCompleted>> = <<0, 1, 2, 3>>

\* reached: JobCompleted was rendered, as "JobCompleted"
C11_Witness ==
    /\ status = Word(JobCompleted)
    /\ statusString = "JobCompleted"

(* ------------------------------- C12 ----------------------------------- *)
\* C12: the length fields never exceed their buffer capacity, in every state
\* the field types admit: ContentTypeLength <= 256, ContentEncodingLength <=
\* 256, MetaDataLength <= 1000; and every used length from 0 up to the full
\* capacity is held by its length field unchanged (no wrapping).
C12_LengthsFitCapacity ==
    LET blob == plan.header.BlobData IN
    /\ blob.ContentTypeLength <= MAX_SIZE_CONTENT_TYPE
    /\ blob.ContentEncodingLength <= MAX_SIZE_CONTENT_ENCODING
    /\ blob.MetaDataLength <= MAX_SIZE_META_DATA
    /\ usedLen.ContentType # NoStore => blob.ContentTypeLength = usedLen.ContentType
    /\ usedLen.ContentEncoding # NoStore =>
          blob.ContentEncodingLength = usedLen.ContentEncoding
    /\ usedLen.MetaData # NoStore => blob.MetaDataLength = usedLen.MetaData

(* ------------------------------- C13 ----------------------------------- *)
QueueIds == {"HighQueue", "MediumQueue", "LowQueue"}

DefinedPriorities == {HighJobPriority, MediumJobPriority, LowJobPriority}

LatestJobStore == IF jobLast = NoStore THEN JobInProgress ELSE jobLast

\* the same for the status word of record i
LatestTransferStore(i) ==
    IF xferLast[i] = NoStore THEN TransferInProgress ELSE xferLast[i]

\* C14: no stale reads.  Every getJobStatus returns the value of the latest
\* store to the job status word completed before it (the constructed value
\* if there is none), never a value an earlier completed store has already
\* overwritten; every getTransferStatus does so for its record.  All readers
\* therefore observe the stores to a word in the one order they were made.
C14_NoStaleRead ==
    [][/\ (Called /\ lastCall'.op = "getJobStatus") =>
             lastCall'.ret = LatestJobStore
       /\ (Called /\ lastCall'.op = "getTransferStatus") =>
             lastCall'.ret = LatestTransferStore(lastCall'.idx)]_vars

\* reached: JobPaused was overwritten by JobCompleted, and a later
\* getJobStatus returned JobCompleted
C14_Witness ==
    /\ calls = 3
    /\ jobWritten = {JobPaused, JobCompleted}
    /\ jobLast = JobCompleted
    /\ lastCall.op = "getJobStatus"
    /\ lastCall.ret = JobCompleted

(* ------------------------------- C15 ----------------------------------- *)
\* C15: the accessors never block.  While calls remain to be made, every
\* accessor call of every routine, on every record and with every status, is
\* enabled whatever the other routines have done; every step taken completes
\* one call; and under fair scheduling the routines complete all their calls.
C15_NoBlocking ==
    /\ [](calls < MaxCalls =>
            \A r \in Routines :
                /\ ENABLED GetJobStatus(r)
                /\ \A code \in JobStatusCodes : ENABLED SetJobStatus(r, code)
                /\ \A i \in TransferIndex :
                      /\ ENABLED GetTransferStatus(r, i)
                      /\ \A code \in TransferStatuses :
                            ENABLED SetTransferStatus(r, i, code))
    /\ [][Called]_vars
    /\ <>(calls = MaxCalls)

\* reached: all calls were made, the last one a setTransferStatus on a
\* paused job
C15_Witness ==
    /\ calls = MaxCalls
    /\ plan.header.jobStatus = JobPaused
    /\ lastCall.op = "setTransferStatus"

(* ------------------------------- C16 ----------------------------------- *)
\* C16: the initial job status is InProgress by zero value.  The jobStatus
\* word of a constructed header is 0, which is JobInProgress; as long as no
\* setJobStatus call has been made, whatever other accessors were called,
\* getJobStatus returns JobInProgress, and that value renders as the name of
\* JobInProgress and not as the invalid-status sentinel.
C16_InitialInProgress ==
    /\ JobPartPlanHeader(TRUE, DefaultJobPriority).jobStatus = 0
    /\ jobWritten = {} =>
          /\ getJobStatus(plan) = JobInProgress
          /\ String(Word(getJobStatus(plan))) = "JobInProgress"
          /\ String(Word(getJobStatus(plan))) # "InvalidStatusCode"
          /\ lastCall.op = "getJobStatus" => lastCall.ret = JobInProgress

\* reached: a transfer was set to a terminal status, no setJobStatus was
\* called, and getJobStatus returned JobInProgress
C16_Witness ==
    /\ jobWritten = {}
    /\ \E i \in TransferIndex : xferLast[i] \in TerminalTransfer
    /\ lastCall.op = "getJobStatus"
    /\ lastCall.ret = JobInProgress

====
